---- MODULE Spec2Model ----
(***************************************************************************)
(* A model of DataCreator.py: a Streamlit script that, on each press of    *)
(* "Generate & Store", appends the request to the session history, runs a  *)
(* two-node LangGraph pipeline (synthesize_data -> manage_db) and lists    *)
(* the tables of the SQLite database.                                      *)
(*                                                                         *)
(* What stands for what:                                                   *)
(*  - a Python value that json.loads can return is a record [t, v, s]:     *)
(*    t is its type ("list", "dict", "scalar"), v the sequence of objects  *)
(*    it holds and s the text of a scalar.  The model's response text is   *)
(*    represented by what json.loads makes of it; t = "invalid" is a text  *)
(*    on which json.loads raises JSONDecodeError.                          *)
(*  - a JSON object is a function from its keys to its (scalar) values.    *)
(*  - a pandas DataFrame, and a table of the database, is a record         *)
(*    [columns, rows]: the set of column names and the sequence of rows,   *)
(*    each row a function from the columns to cell values.                 *)
(*  - the database is a function from table names to tables.               *)
(*  - each browser session runs the script top to bottom on every          *)
(*    interaction; pc[s] is where session s's run stands.                  *)
(*                                                                         *)
(* The responses considered are: a text that is not JSON, an array of up   *)
(* to MaxRecords order objects with scalar fields, a single such object,   *)
(* and a JSON scalar (truthy or falsy in Python).                          *)
(*                                                                         *)
(* db, messages, state and the locals of the functions (response,          *)
(* user_msg, df, existing_tables, table_name, prompt, button) are the      *)
(* program's; notes, shown_data and listing are what the page shows;       *)
(* initial, writes, triggers, calls and db0 record what happened (the      *)
(* tables at the start, the completed to_sql calls, the presses of the     *)
(* button, the model calls of the run, the database when the run began).   *)
(*                                                                         *)
(* A definition named X_Y is X with a slip Y in it; the properties at the  *)
(* end tell X from each such variant.                                      *)
(***************************************************************************)
EXTENDS Integers, Sequences, FiniteSets, TLC

\* Bounds of the model.
MaxTriggers == 2
MaxRecords == 2
MaxInitTables == 2

VARIABLES db, initial, writes, messages, pc, button, prompt, triggers, state, response, user_msg, calls, df, existing_tables, table_name, notes, shown_data, listing, db0

vars == <<db, initial, writes, messages, pc, button, prompt, triggers, state, response, user_msg, calls, df, existing_tables, table_name, notes, shown_data, listing, db0>>

\* The browser sessions that may share the process and the database file.
Sessions == {1, 2}

\* The single user of the sequential specifications.
SoleUser == {1}

(***************************************************************************)
(* Values                                                                  *)
(***************************************************************************)

\* What the text input can hold at the j-th press of the button: nothing, or
\* a request (a new text at each press, so that the order of the history
\* shows).
Prompts(j) == {"", "request " \o ToString(j)}

DefaultPrompt == "Generate synthetic data"

PyList(items) == [t |-> "list", v |-> items, s |-> ""]

PyDict(obj) == [t |-> "dict", v |-> <<obj>>, s |-> ""]

PyScalar(text) == [t |-> "scalar", v |-> <<>>, s |-> text]

InvalidText == [t |-> "invalid", v |-> <<>>, s |-> "Sorry, here is your data"]

NoResponse == [t |-> "none", v |-> <<>>, s |-> ""]

\* Two order objects with different key sets, and the row already in the
\* tables that exist before the first run.
RecA == [city |-> "Pune"]

RecB == [city |-> "Agra", price |-> "10"]

RecOld == [city |-> "Goa", state |-> "Goa"]

Records == {RecA, RecB}

\* JSON scalars: 42 is truthy in Python, null (None) is falsy.
Scalars == {"42", "null"}

FalsyScalars == {"null", "0", "false"}

SeqsUpTo(S, n) == UNION {[1..k -> S] : k \in 0..n}

\* The texts the language model may answer with, by their parse.
Responses == {InvalidText} \cup {PyList(q) : q \in SeqsUpTo(Records, MaxRecords)} \cup {PyDict(o) : o \in Records} \cup {PyScalar(x) : x \in Scalars}

\* The cell pandas puts where a record lacks a column (NULL in the table).
NaN == "NaN"

EmptyFrame == [columns |-> {}, rows |-> <<>>]

ErrorNote == [kind |-> "error", table |-> "", n |-> 0]

WarningNote == [kind |-> "warning", table |-> "", n |-> 0]

SuccessNote(name, n) == [kind |-> "success", table |-> name, n |-> n]

NoListing == [rendered |-> FALSE, names |-> {}]

(***************************************************************************)
(* synthesize_data                                                         *)
(***************************************************************************)

\* A slip in the index: the first request instead of the latest.
UserMsg_First(msgs) == IF msgs # <<>> THEN msgs[1] ELSE DefaultPrompt

\* state["messages"][-1] if state["messages"] else "Generate synthetic data"
UserMsg(msgs) == IF msgs # <<>> THEN msgs[Len(msgs)] ELSE DefaultPrompt

\* json.loads raises JSONDecodeError
JsonLoadsFails(r) == r.t = "invalid"

\* The wrapping of a single object left out.
WrapDict_Skip(data) == data

\* if isinstance(data, dict): data = [data]
WrapDict(data) == IF data.t = "dict" THEN PyList(data.v) ELSE data

\* try: data = json.loads(...) ... except JSONDecodeError: data = []
ParseResponse(r) == IF JsonLoadsFails(r) THEN PyList(<<>>) ELSE WrapDict(r)

(***************************************************************************)
(* manage_db                                                               *)
(***************************************************************************)

\* Python truthiness of a parsed value.
Truthy(data) == CASE data.t = "list" -> data.v # <<>> [] data.t = "dict" -> DOMAIN data.v[1] # {} [] data.t = "scalar" -> data.s \notin FalsyScalars [] OTHER -> FALSE

\* "if data is None" instead of "if not data".
NotData_NoneOnly(data) == data.t = "scalar" /\ data.s = "null"

\* if not data:
NotData(data) == ~Truthy(data)

\* pd.DataFrame(data) raises ValueError on a scalar.
DataFrameRaises(data) == data.t # "list"

Columns(recs) == UNION {DOMAIN recs[i] : i \in 1..Len(recs)}

\* The columns taken from the first record alone.
DataFrame_FirstKeys(recs) == [columns |-> IF recs = <<>> THEN {} ELSE DOMAIN recs[1], rows |-> [i \in 1..Len(recs) |-> [c \in (IF recs = <<>> THEN {} ELSE DOMAIN recs[1]) |-> IF c \in DOMAIN recs[i] THEN recs[i][c] ELSE NaN]]]

\* pd.DataFrame(list of dicts): one row per dict, the columns the union of
\* the keys, NaN where a dict lacks a key.
DataFrame(recs) == [columns |-> Columns(recs), rows |-> [i \in 1..Len(recs) |-> [c \in Columns(recs) |-> IF c \in DOMAIN recs[i] THEN recs[i][c] ELSE NaN]]]

\* An inspector made once at start-up and reused: it answers from its cache.
GetTableNames_Cached(database) == initial

\* inspector.get_table_names()
GetTableNames(database) == DOMAIN database

\* The "+ 1" left out.
TableNumber_NoIncrement(existing) == Cardinality(existing)

\* table_number = len(existing_tables) + 1
TableNumber(existing) == Cardinality(existing) + 1

\* f"table_{table_number}"
TableName(n) == "table_" \o ToString(n)

\* if_exists="append"
ToSql_Append(database, name, frame) == [n \in DOMAIN database \cup {name} |-> IF n # name THEN database[n] ELSE IF name \in DOMAIN database THEN [columns |-> database[n].columns \cup frame.columns, rows |-> database[n].rows \o frame.rows] ELSE frame]

\* An existing table of the name is left as it is.
ToSql_KeepExisting(database, name, frame) == [n \in DOMAIN database \cup {name} |-> IF n \in DOMAIN database THEN database[n] ELSE frame]

\* The database is made anew for each write.
ToSql_Recreate(database, name, frame) == [n \in {name} |-> frame]

\* df.to_sql(table_name, con=engine, if_exists="replace", index=False)
ToSql(database, name, frame) == [n \in DOMAIN database \cup {name} |-> IF n = name THEN frame ELSE database[n]]

(***************************************************************************)
(* The database before the first run                                       *)
(***************************************************************************)

\* Names a table may already have: one given by hand, and names this
\* program gives.
NamePool == {"orders", TableName(1), TableName(2), TableName(3)}

InitialDatabases == {[n \in names |-> DataFrame(<<RecOld>>)] : names \in {S \in SUBSET NamePool : Cardinality(S) <= MaxInitTables}}

(***************************************************************************)
(* The script                                                              *)
(***************************************************************************)

\* The history assigned instead of appended to.
AppendMessage_Reset(msgs, p) == <<p>>

\* st.session_state.messages.append(prompt)
AppendMessage(msgs, p) == Append(msgs, p)

\* inputs = {"messages": st.session_state.messages, "generated_data": []}
Inputs(msgs) == [messages |-> msgs, generated_data |-> PyList(<<>>)]

TotalTriggers == triggers[1] + triggers[2]

AtRest(s) == pc[s] \in {"idle", "done", "aborted"}

\* A new run of the script starts with fresh locals and a cleared page.
FreshRun(s) ==
    /\ response' = [response EXCEPT ![s] = NoResponse]
    /\ user_msg' = [user_msg EXCEPT ![s] = ""]
    /\ calls' = [calls EXCEPT ![s] = 0]
    /\ df' = [df EXCEPT ![s] = EmptyFrame]
    /\ existing_tables' = [existing_tables EXCEPT ![s] = {}]
    /\ table_name' = [table_name EXCEPT ![s] = ""]
    /\ notes' = [notes EXCEPT ![s] = {}]
    /\ shown_data' = [shown_data EXCEPT ![s] = EmptyFrame]
    /\ listing' = [listing EXCEPT ![s] = NoListing]
    /\ db0' = [db0 EXCEPT ![s] = db]

Init ==
    /\ db \in InitialDatabases
    /\ initial = DOMAIN db
    /\ writes = <<>>
    /\ messages = [s \in Sessions |-> <<>>]
    /\ pc = [s \in Sessions |-> "idle"]
    /\ button = [s \in Sessions |-> FALSE]
    /\ prompt = [s \in Sessions |-> ""]
    /\ triggers = [s \in Sessions |-> 0]
    /\ state = [s \in Sessions |-> Inputs(<<>>)]
    /\ response = [s \in Sessions |-> NoResponse]
    /\ user_msg = [s \in Sessions |-> ""]
    /\ calls = [s \in Sessions |-> 0]
    /\ df = [s \in Sessions |-> EmptyFrame]
    /\ existing_tables = [s \in Sessions |-> {}]
    /\ table_name = [s \in Sessions |-> ""]
    /\ notes = [s \in Sessions |-> {}]
    /\ shown_data = [s \in Sessions |-> EmptyFrame]
    /\ listing = [s \in Sessions |-> NoListing]
    /\ db0 = [s \in Sessions |-> db]

\* The button is pressed with p in the text input: lines 92-95.
Trigger(s, p) ==
    /\ AtRest(s)
    /\ TotalTriggers < MaxTriggers
    /\ button' = [button EXCEPT ![s] = TRUE]
    /\ prompt' = [prompt EXCEPT ![s] = p]
    /\ triggers' = [triggers EXCEPT ![s] = @ + 1]
    /\ FreshRun(s)
    /\ IF p # ""
       THEN /\ messages' = [messages EXCEPT ![s] = AppendMessage(@, p)]
            /\ state' = [state EXCEPT ![s] = Inputs(messages'[s])]
            /\ pc' = [pc EXCEPT ![s] = "synthesize"]
       ELSE /\ state' = [state EXCEPT ![s] = Inputs(<<>>)]
            /\ pc' = [pc EXCEPT ![s] = "tables"]
            /\ UNCHANGED messages
    /\ UNCHANGED <<db, initial, writes>>

\* Any other interaction reruns the script with the button not pressed: the
\* text input is read (line 90) and not used.
Rerun(s) ==
    /\ AtRest(s)
    /\ button' = [button EXCEPT ![s] = FALSE]
    /\ prompt' = [prompt EXCEPT ![s] = ""]
    /\ FreshRun(s)
    /\ state' = [state EXCEPT ![s] = Inputs(<<>>)]
    /\ pc' = [pc EXCEPT ![s] = "tables"]
    /\ UNCHANGED <<db, initial, writes, messages, triggers>>

\* synthesize_data, the model answering with r: lines 43-54.
Synthesize(s, r) ==
    /\ pc[s] = "synthesize"
    /\ response' = [response EXCEPT ![s] = r]
    /\ user_msg' = [user_msg EXCEPT ![s] = UserMsg(state[s].messages)]
    /\ calls' = [calls EXCEPT ![s] = @ + 1]
    /\ state' = [state EXCEPT ![s] = [messages |-> state[s].messages, generated_data |-> ParseResponse(r)]]
    /\ notes' = [notes EXCEPT ![s] = IF JsonLoadsFails(r) THEN @ \cup {ErrorNote} ELSE @]
    /\ pc' = [pc EXCEPT ![s] = "store"]
    /\ UNCHANGED <<db, initial, writes, messages, button, prompt, triggers, df, existing_tables, table_name, shown_data, listing, db0>>

\* manage_db up to the table name: lines 58-69.
StoreRead(s) ==
    /\ pc[s] = "store"
    /\ LET data == state[s].generated_data
       IN  IF NotData(data)
           THEN /\ notes' = [notes EXCEPT ![s] = @ \cup {WarningNote}]
                /\ pc' = [pc EXCEPT ![s] = "display"]
                /\ UNCHANGED <<df, existing_tables, table_name>>
           ELSE IF DataFrameRaises(data)
           THEN /\ pc' = [pc EXCEPT ![s] = "aborted"]
                /\ UNCHANGED <<notes, df, existing_tables, table_name>>
           ELSE /\ df' = [df EXCEPT ![s] = DataFrame(data.v)]
                /\ existing_tables' = [existing_tables EXCEPT ![s] = GetTableNames(db)]
                /\ table_name' = [table_name EXCEPT ![s] = TableName(TableNumber(existing_tables'[s]))]
                /\ pc' = [pc EXCEPT ![s] = "to_sql"]
                /\ UNCHANGED notes
    /\ UNCHANGED <<db, initial, writes, messages, button, prompt, triggers, state, response, user_msg, calls, shown_data, listing, db0>>

\* manage_db, the write and the success notice: lines 72-74.
StoreWrite(s) ==
    /\ pc[s] = "to_sql"
    /\ db' = ToSql(db, table_name[s], df[s])
    /\ writes' = Append(writes, [s |-> s, name |-> table_name[s]])
    /\ notes' = [notes EXCEPT ![s] = @ \cup {SuccessNote(table_name[s], Len(df[s].rows))}]
    /\ pc' = [pc EXCEPT ![s] = "display"]
    /\ UNCHANGED <<initial, messages, button, prompt, triggers, state, response, user_msg, calls, df, existing_tables, table_name, shown_data, listing, db0>>

\* The records of the run are shown: lines 98-101.
Display(s) ==
    /\ pc[s] = "display"
    /\ shown_data' = [shown_data EXCEPT ![s] = IF Truthy(state[s].generated_data) THEN DataFrame(state[s].generated_data.v) ELSE @]
    /\ pc' = [pc EXCEPT ![s] = "tables"]
    /\ UNCHANGED <<db, initial, writes, messages, button, prompt, triggers, state, response, user_msg, calls, df, existing_tables, table_name, notes, listing, db0>>

\* The list of tables is shown: lines 104-107.
ShowTables(s) ==
    /\ pc[s] = "tables"
    /\ listing' = [listing EXCEPT ![s] = [rendered |-> TRUE, names |-> GetTableNames(db)]]
    /\ pc' = [pc EXCEPT ![s] = "done"]
    /\ UNCHANGED <<db, initial, writes, messages, button, prompt, triggers, state, response, user_msg, calls, df, existing_tables, table_name, notes, shown_data, db0>>

\* A step of the script's run once the user has started it.
RunStep(s) ==
    \/ \E r \in Responses : Synthesize(s, r)
    \/ StoreRead(s)
    \/ StoreWrite(s)
    \/ Display(s)
    \/ ShowTables(s)

Step(s) ==
    \/ \E p \in Prompts(TotalTriggers + 1) : Trigger(s, p)
    \/ Rerun(s)
    \/ RunStep(s)

\* One user, the language model and the database answering every call.
Next == \E s \in SoleUser : Step(s)

Spec == Init /\ [][Next]_vars

(***************************************************************************)
(* Faults of the language model service and of the database.  None is      *)
(* caught: the exception ends the script's run where it is raised.         *)
(***************************************************************************)

\* llm([...]) raises (no credential, no connection): line 44.
LlmFault(s) ==
    /\ pc[s] = "synthesize"
    /\ user_msg' = [user_msg EXCEPT ![s] = UserMsg(state[s].messages)]
    /\ calls' = [calls EXCEPT ![s] = @ + 1]
    /\ pc' = [pc EXCEPT ![s] = "aborted"]
    /\ UNCHANGED <<db, initial, writes, messages, button, prompt, triggers, state, response, df, existing_tables, table_name, notes, shown_data, listing, db0>>

\* inspector.get_table_names() raises in manage_db: lines 66-67.
InspectFault(s) ==
    /\ pc[s] = "store"
    /\ Truthy(state[s].generated_data)
    /\ ~DataFrameRaises(state[s].generated_data)
    /\ df' = [df EXCEPT ![s] = DataFrame(state[s].generated_data.v)]
    /\ pc' = [pc EXCEPT ![s] = "aborted"]
    /\ UNCHANGED <<db, initial, writes, messages, button, prompt, triggers, state, response, user_msg, calls, existing_tables, table_name, notes, shown_data, listing, db0>>

\* What a to_sql that raises may leave behind: nothing, or the table made
\* and not filled (no transaction spans the write).
PartialWrites(database, name, frame) == {database, ToSql(database, name, [columns |-> frame.columns, rows |-> <<>>])}

\* df.to_sql(...) raises: line 72.
ToSqlFault(s) ==
    /\ pc[s] = "to_sql"
    /\ db' \in PartialWrites(db, table_name[s], df[s])
    /\ pc' = [pc EXCEPT ![s] = "aborted"]
    /\ UNCHANGED <<initial, writes, messages, button, prompt, triggers, state, response, user_msg, calls, df, existing_tables, table_name, notes, shown_data, listing, db0>>

\* inspector.get_table_names() raises at the end of the script: lines 105-106.
ListFault(s) ==
    /\ pc[s] = "tables"
    /\ pc' = [pc EXCEPT ![s] = "aborted"]
    /\ UNCHANGED <<db, initial, writes, messages, button, prompt, triggers, state, response, user_msg, calls, df, existing_tables, table_name, notes, shown_data, listing, db0>>

Fault(s) ==
    \/ LlmFault(s)
    \/ InspectFault(s)
    \/ ToSqlFault(s)
    \/ ListFault(s)

FaultNext == \E s \in SoleUser : Step(s) \/ Fault(s)

\* One user; the language model and the database may fail.
FaultSpec == Init /\ [][FaultNext]_vars

(***************************************************************************)
(* Two sessions of one process, each running the script in its own thread  *)
(* against the same database file.                                         *)
(***************************************************************************)

\* Both users press the button; the runs interleave statement by statement.
ConcNext == \E s \in Sessions : (\E p \in Prompts(TotalTriggers + 1) : triggers[s] = 0 /\ Trigger(s, p)) \/ RunStep(s)

ConcSpec == Init /\ [][ConcNext]_vars

(***************************************************************************)
(* Properties                                                              *)
(***************************************************************************)

\* The run of session s has stored its records (st.success was shown).
Wrote(s) == \E note \in notes[s] : note.kind = "success"

\* manage_db has returned in the run of session s.
StoreOver(s) == pc[s] \in {"display", "tables", "done"}

\* The names the next writes take when k tables exist.
NamesAhead(k) == {TableName(j) : j \in (k + 1)..(k + MaxTriggers)}

C2_InvalidStoresNothing ==
    \A s \in SoleUser : response[s].t = "invalid" =>
        /\ state[s].generated_data = PyList(<<>>)
        /\ ErrorNote \in notes[s]
        /\ pc[s] \in {"store", "display", "tables", "done"}
        /\ (pc[s] # "store" => WarningNote \in notes[s])
        /\ ~Wrote(s)
        /\ db = db0[s]
        /\ (pc[s] = "done" => listing[s] = [rendered |-> TRUE, names |-> DOMAIN db0[s]])

C2_Witness == response[1].t = "invalid" /\ pc[1] = "done" /\ Cardinality(DOMAIN db0[1]) = 2 /\ Cardinality(listing[1].names) = 2

C4_ObjectStoredAsOneRow ==
    \A s \in SoleUser : response[s].t = "dict" =>
        /\ state[s].generated_data = PyList(<<response[s].v[1]>>)
        /\ pc[s] # "aborted"
        /\ (StoreOver(s) =>
                /\ SuccessNote(table_name[s], 1) \in notes[s]
                /\ Len(db[table_name[s]].rows) = 1
                /\ db[table_name[s]].rows[1] = response[s].v[1])

C4_Witness == response[1] = PyDict(RecB) /\ pc[1] = "done" /\ Wrote(1)

\* C5: during and after a run the database has the tables it had when the
\* run began and at most one more: no name is removed, and the count is the
\* same or larger by one.
C5_AtMostOneTablePerRun ==
    \A s \in SoleUser :
        /\ DOMAIN db0[s] \subseteq DOMAIN db
        /\ Cardinality(DOMAIN db) \in {Cardinality(DOMAIN db0[s]), Cardinality(DOMAIN db0[s]) + 1}

C5_Witness == pc[1] = "done" /\ Wrote(1) /\ triggers[1] = 2 /\ Cardinality(DOMAIN db) = Cardinality(DOMAIN db0[1]) + 1

\* C6: when the store step writes to a name that was already a table, that
\* table is afterwards the frame of the current run, one row per record of
\* the run and nothing of what it held, and every other table is as it was.
C6_ReplaceOnSameName ==
    \A s \in SoleUser : (Wrote(s) /\ table_name[s] \in DOMAIN db0[s]) =>
        /\ db[table_name[s]] = df[s]
        /\ Len(db[table_name[s]].rows) = Len(state[s].generated_data.v)
        /\ DOMAIN db = DOMAIN db0[s]
        /\ \A n \in DOMAIN db0[s] \ {table_name[s]} : db[n] = db0[s][n]

C6_Witness == Wrote(1) /\ table_name[1] \in DOMAIN db0[1] /\ db0[1][table_name[1]] # db[table_name[1]] /\ Cardinality(DOMAIN db) = 2 /\ pc[1] = "done"

\* C7 as stated: once a triggered run is over, however it ended, the page
\* shows the list of the tables now in the database.
C7_Original == \A s \in SoleUser : (button[s] /\ pc[s] \in {"done", "aborted"}) => (listing[s].rendered /\ listing[s].names = DOMAIN db)

\* C7, amended: a run that was started goes on to its end; a run that ends
\* without an unhandled fault has shown the list of the tables now in the
\* database, the table it wrote among them; a run ended by an unhandled
\* fault has shown no list.
C7_RendersUnlessFault ==
    \A s \in SoleUser :
        /\ (~AtRest(s) => ENABLED (RunStep(s) \/ Fault(s)))
        /\ (pc[s] = "done" =>
                /\ listing[s].rendered
                /\ listing[s].names = DOMAIN db
                /\ \A note \in notes[s] : note.kind = "success" => note.table \in listing[s].names)
        /\ (pc[s] = "aborted" => ~listing[s].rendered)

C7_Witness == button[1] /\ pc[1] = "done" /\ Wrote(1) /\ table_name[1] \in listing[1].names /\ table_name[1] \notin DOMAIN db0[1]

\* C8 as stated: the history has one entry per press of the button.
C8_Original == \A s \in SoleUser : Len(messages[s]) = triggers[s]

\* C8, amended: a press of the button with a non-empty input appends that
\* input to the history; no other step, and no press with an empty input,
\* changes the history.
C8_GrowsPerRequest == [][\A s \in Sessions : IF triggers'[s] = triggers[s] + 1 /\ prompt'[s] # "" THEN messages'[s] = Append(messages[s], prompt'[s]) ELSE messages'[s] = messages[s]]_vars

C8_Witness == Len(messages[1]) = 2 /\ triggers[1] = 2 /\ pc[1] = "done"

\* C9: when two sessions' store steps have both written after reading the
\* same list of tables, they computed the same name, the two writes went to
\* that one table, the table holds the frame of the later write alone and the
\* database has no other new table.
C9_SameListSameTable ==
    (Wrote(1) /\ Wrote(2) /\ existing_tables[1] = existing_tables[2]) =>
        /\ table_name[1] = table_name[2]
        /\ Len(writes) >= 2
        /\ writes[Len(writes)].name = table_name[1]
        /\ writes[Len(writes) - 1].name = table_name[1]
        /\ writes[Len(writes) - 1].s # writes[Len(writes)].s
        /\ db[table_name[1]] = df[writes[Len(writes)].s]
        /\ DOMAIN db = existing_tables[1] \cup {table_name[1]}
        /\ \A n \in existing_tables[1] \ {table_name[1]} : db[n] = db0[1][n]

C9_Witness == Wrote(1) /\ Wrote(2) /\ existing_tables[1] = existing_tables[2] /\ table_name[1] \notin existing_tables[1] /\ df[1] # df[2] /\ Cardinality(DOMAIN db) = Cardinality(initial) + 1 /\ pc[1] = "done" /\ pc[2] = "done"

\* C10: while and after the pipeline runs, the history is non-empty and ends
\* with the input of the press that started the run, and that input, never
\* the default prompt, is the user message sent to the language model; a
\* press with an empty input runs no pipeline step, calls no model and writes
\* no table.
C10_LatestRequestSent ==
    \A s \in SoleUser :
        /\ (pc[s] \in {"synthesize", "store", "to_sql", "display"} \/ calls[s] > 0) =>
                /\ button[s]
                /\ prompt[s] # ""
                /\ messages[s] # <<>>
                /\ messages[s][Len(messages[s])] = prompt[s]
                /\ state[s].messages = messages[s]
        /\ (calls[s] > 0 => (user_msg[s] = prompt[s] /\ user_msg[s] # DefaultPrompt))
        /\ (button[s] /\ prompt[s] = "") =>
                /\ pc[s] \in {"tables", "done", "aborted"}
                /\ calls[s] = 0
                /\ response[s] = NoResponse
                /\ notes[s] = {}
                /\ db = db0[s]

C10_Witness == calls[1] > 0 /\ Len(messages[1]) = 2 /\ user_msg[1] = messages[1][2] /\ messages[1][1] # messages[1][2] /\ pc[1] = "done"

====
